---- MODULE Spec2Model ----
(***************************************************************************)
(* Model of the retrieval core of Pawsonality:                             *)
(*   - SimpleVectorDB (app/services/vector_db_simple.py): the file-backed  *)
(*     vector store with insert_documents / save / load / search;          *)
(*   - SimpleRAGService (app/services/rag_simple.py): retrieve_context and *)
(*     generate_response_with_context ("compose").                         *)
(*                                                                         *)
(* Embeddings are 2-dimensional integer vectors of integer norm, so that   *)
(* the cosine similarity is an exact multiple of 1/ScoreScale; scores are  *)
(* kept as integers in hundredths (0.3 is 30, 1.0 is 100).  The zero       *)
(* vector (whose normalisation is NaN) is not an embedding of the model.   *)
(***************************************************************************)
EXTENDS Integers, Sequences, FiniteSets, TLC

VARIABLES
    created,        \* _simple_vector_db is not None (the singleton exists)
    documents,      \* SimpleVectorDB.documents
    embeddings,     \* SimpleVectorDB.embeddings: [present, rows]; present = FALSE is None
    file,           \* the backing file at db_path
    saved,          \* history: the in-memory state handed to the last save()
    argsortTies,    \* how this build's np.argsort orders equal keys
    apiKey,         \* settings.OPENROUTER_API_KEY is non-empty
    modelLoaded,    \* EmbeddingService.model is not None
    ragInitialized, \* SimpleRAGService._initialized
    openrouterAvailable, \* SimpleRAGService._openrouter_available
    modelsBuilt,    \* SentenceTransformer objects this process has constructed
    inflight,       \* an insert_documents call in progress on another thread
    call,           \* a generate_response_with_context call in progress
    chatbotInitialized, \* ChatbotService._initialized
    op              \* the last completed operation: its name, arguments and outcome

vars == <<created, documents, embeddings, file, saved, argsortTies, apiKey,
          modelLoaded, ragInitialized, openrouterAvailable, modelsBuilt,
          inflight, call, chatbotInitialized, op>>

storeVars == <<created, documents, embeddings, file, saved>>
ragVars == <<modelLoaded, ragInitialized, openrouterAvailable>>
callVars == <<inflight, call, chatbotInitialized>>
auxVars == <<modelsBuilt, inflight, call, chatbotInitialized>>

-----------------------------------------------------------------------------
(* Bounds *)

MaxDocs == 3        \* most documents of a store that is searched
MaxInsert == 2      \* longest document list handed to insert_documents
MaxK == 2           \* largest top_k of a search
MaxCorpus == 1      \* most documents of the store behind the RAG service
MaxHistory == 7     \* longest conversation history handed to format_messages
MaxRetrieved == 3   \* longest document list handed to format_context
MaxBatch == 4       \* longest text list handed to encode_batch

(* Scores are integers in units of 1/ScoreScale *)
ScoreScale == 100

-----------------------------------------------------------------------------
(* Values *)

None == "None"                      \* Python's None, where a string may stand
Tags == {"WTIL", "DTIL"}            \* type codes
FilterValues == Tags \cup {None, ""}

DocVecs == {<<1, 0>>, <<3, 4>>}             \* embeddings of documents
QueryVecs == {<<1, 0>>, <<-1, 0>>}          \* embeddings of queries

KeyStyles == {"dbti", "pawna"}      \* the key an ingestion run tags documents with

TitleOf(i) == IF i = 2 THEN "title-b" ELSE "title-a"
ContentOf(i) == <<"content", i>>

(* A knowledge-base entry as the i-th element of an ingested list.  A key  *)
(* that the dict does not carry reads as None (dict.get).                  *)
Document(i, tag, style) ==
    [id |-> i,
     dbti_code |-> IF style = "dbti" THEN tag ELSE None,
     pawna_code |-> IF style = "pawna" THEN tag ELSE None,
     title |-> TitleOf(i),
     content |-> ContentOf(i)]

NoEmbeddings == [present |-> FALSE, rows |-> <<>>]
Matrix(rows) == [present |-> TRUE, rows |-> rows]

SeqsUpTo(S, n) == UNION {[1..m -> S] : m \in 0..n}

-----------------------------------------------------------------------------
(* Cosine similarity, vector_db_simple.py:95-104 *)

Dot(a, b) == a[1] * b[1] + a[2] * b[2]

Norm(v) == CHOOSE n \in 0..5 : n * n = Dot(v, v)

Similarity(e, q) == (Dot(e, q) * ScoreScale) \div (Norm(e) * Norm(q))

Similarities(rows, q) == [i \in 1..Len(rows) |-> Similarity(rows[i], q)]

-----------------------------------------------------------------------------
(* Python and NumPy list operations *)

Truthy(s) == s \notin {None, ""}

Reverse(s) == [i \in 1..Len(s) |-> s[Len(s) + 1 - i]]

SliceToShort(s, k) ==
    SubSeq(s, 1, (IF k < Len(s) THEN k ELSE Len(s)) - 1)

(* s[:k] *)
SliceTo(s, k) ==
    LET n == IF k >= 0 THEN (IF k < Len(s) THEN k ELSE Len(s))
             ELSE (IF Len(s) + k > 0 THEN Len(s) + k ELSE 0)
    IN  SubSeq(s, 1, n)

(* np.argsort(s): the indices that sort s ascending.  The default kind is  *)
(* not a stable sort: equal keys come out in an order the build decides.   *)
Precedes(s, ties, i, j) ==
    \/ s[i] < s[j]
    \/ s[i] = s[j] /\ (IF ties = "ascending" THEN i < j ELSE i > j)

Argsort(s, ties) ==
    [p \in 1..Len(s) |->
        CHOOSE i \in 1..Len(s) :
            Cardinality({j \in 1..Len(s) : Precedes(s, ties, j, i)}) = p - 1]

TieOrders == {"ascending", "descending"}

-----------------------------------------------------------------------------
(* Outcomes of a call *)

Return(v) == [kind |-> "return", value |-> v, exc |-> None]
Raise(e) == [kind |-> "raise", value |-> <<>>, exc |-> e]

-----------------------------------------------------------------------------
(* SimpleVectorDB.search, vector_db_simple.py:72-133 *)

(* doc.copy(); doc['score'] = score *)
WithScore(doc, score) ==
    [id |-> doc.id, dbti_code |-> doc.dbti_code, pawna_code |-> doc.pawna_code,
     title |-> doc.title, content |-> doc.content, score |-> score]

FilteredIndicesUnfiltered(docs, dbti_filter) == [i \in 1..Len(docs) |-> i]

(* [i for i, doc in enumerate(self.documents) if doc.get('dbti_code') == dbti_filter] *)
FilteredIndices(docs, dbti_filter) ==
    SelectSeq([i \in 1..Len(docs) |-> i], LAMBDA i : docs[i].dbti_code = dbti_filter)

TopIndicesUntruncated(filtered_similarities, top_k, ties) ==
    Reverse(Argsort(filtered_similarities, ties))

TopIndicesAscending(filtered_similarities, top_k, ties) ==
    SliceTo(Argsort(filtered_similarities, ties), top_k)

(* np.argsort(filtered_similarities)[::-1][:top_k] *)
TopIndices(filtered_similarities, top_k, ties) ==
    SliceTo(Reverse(Argsort(filtered_similarities, ties)), top_k)

KeepsAnyScore(score, min_score) == TRUE

(* Whether index idx of the ranking is kept: score >= min_score *)
Keeps(score, min_score) == score >= min_score

(* The result loop: for idx in top_indices: ... results.append(doc) *)
RECURSIVE Results(_, _, _, _, _)
Results(top_indices, filtered_similarities, filtered_documents, min_score, results) ==
    IF top_indices = <<>> THEN Return(results)
    ELSE LET idx == Head(top_indices)
             score == filtered_similarities[idx]
         IN  IF Keeps(score, min_score)
             THEN IF idx > Len(filtered_documents)
                  THEN Raise("IndexError")
                  ELSE Results(Tail(top_indices), filtered_similarities,
                               filtered_documents, min_score,
                               Append(results, WithScore(filtered_documents[idx], score)))
             ELSE Results(Tail(top_indices), filtered_similarities,
                          filtered_documents, min_score, results)

IsEmptyStoreIgnoresNone(docs, emb) == emb.present /\ Len(docs) = 0

(* The early return of an empty store *)
IsEmptyStore(docs, emb) == ~emb.present \/ Len(docs) = 0

search(docs, emb, query_embedding, top_k, dbti_filter, min_score, ties) ==
    IF IsEmptyStore(docs, emb) THEN Return(<<>>)
    ELSE IF ~emb.present THEN Raise("TypeError")    \* arithmetic on None
    ELSE
      LET similarities == Similarities(emb.rows, query_embedding)
          filtered_indices == FilteredIndices(docs, dbti_filter)
      IN  IF Truthy(dbti_filter)
          THEN IF filtered_indices # <<>>
               THEN IF \E j \in 1..Len(filtered_indices) :
                            filtered_indices[j] > Len(similarities)
                    THEN Raise("IndexError")
                    ELSE LET filtered_similarities ==
                                 [j \in 1..Len(filtered_indices) |->
                                     similarities[filtered_indices[j]]]
                             filtered_documents ==
                                 [j \in 1..Len(filtered_indices) |->
                                     docs[filtered_indices[j]]]
                         IN  Results(TopIndices(filtered_similarities, top_k, ties),
                                     filtered_similarities, filtered_documents,
                                     min_score, <<>>)
               ELSE Return(<<>>)
          ELSE Results(TopIndices(similarities, top_k, ties),
                       similarities, docs, min_score, <<>>)

-----------------------------------------------------------------------------
(* The backing file, SimpleVectorDB.save and SimpleVectorDB.load,          *)
(* vector_db_simple.py:29-56                                               *)

NoFile == [state |-> "missing", keys |-> {}, documents |-> <<>>,
           embeddings |-> NoEmbeddings]
Undecodable == [state |-> "undecodable", keys |-> {}, documents |-> <<>>,
                embeddings |-> NoEmbeddings]

(* pickle.dump({"documents": ..., "embeddings": ...}, f) *)
Pickled(docs, emb) ==
    [state |-> "dict", keys |-> {"documents", "embeddings"},
     documents |-> docs, embeddings |-> emb]

(* The store after load() on file f, and what load() returns or raises *)
LoadedDocuments(f, docs) ==
    IF f.state = "dict" /\ "documents" \in f.keys THEN f.documents ELSE docs

LoadedEmbeddingsStale(f, emb) == emb

LoadedEmbeddings(f, emb) ==
    IF f.state = "dict" /\ {"documents", "embeddings"} \subseteq f.keys
    THEN f.embeddings ELSE emb

LoadOutcome(f) ==
    IF f.state = "missing" THEN Return(FALSE)
    ELSE IF f.state = "undecodable" THEN Raise("UnpicklingError")
    ELSE IF {"documents", "embeddings"} \subseteq f.keys THEN Return(TRUE)
    ELSE Raise("KeyError")

Snapshot(docs, emb) == [any |-> TRUE, documents |-> docs, embeddings |-> emb]
NothingSaved == [any |-> FALSE, documents |-> <<>>, embeddings |-> NoEmbeddings]

-----------------------------------------------------------------------------
(* Inputs *)

TopKs == 0..MaxK
MinScores == {0, 80}
ConfiguredMinScore == 30            \* retrieve_context's default min_score, 0.3

(* The lists an ingestion run hands to insert_documents: up to n documents *)
(* and the rows of their embeddings, one per document.                     *)
Ingestions(n) ==
    {[documents |-> [i \in 1..Len(tv) |-> Document(i, tv[i][1], style)],
      embeddings |-> [i \in 1..Len(tv) |-> tv[i][2]]] :
        tv \in SeqsUpTo(Tags \X DocVecs, n), style \in KeyStyles}

(* The argument pairs insert_documents accepts: any list of documents and   *)
(* any matrix; the method compares neither length with the other.          *)
Insertions(n) ==
    {[documents |-> [i \in 1..Len(tags) |-> Document(i, tags[i], style)],
      embeddings |-> rows] :
        tags \in SeqsUpTo(Tags, n), style \in KeyStyles,
        rows \in SeqsUpTo(DocVecs, n)}

-----------------------------------------------------------------------------
(* State *)

NoOp == [name |-> "none", args |-> <<>>, outcome |-> Return(None)]

(* No insert_documents call and no compose call is in progress *)
NoInsert == [pc |-> "idle", documents |-> <<>>, embeddings |-> NoEmbeddings,
             oldDocuments |-> <<>>, oldEmbeddings |-> NoEmbeddings]
NoCall == [pc |-> "idle"]

(* The process before the store object exists; no backing file yet *)
Init ==
    /\ created = FALSE
    /\ documents = <<>>
    /\ embeddings = NoEmbeddings
    /\ file = NoFile
    /\ saved = NothingSaved
    /\ argsortTies \in TieOrders
    /\ apiKey = FALSE
    /\ modelLoaded = FALSE
    /\ ragInitialized = FALSE
    /\ openrouterAvailable = FALSE
    /\ modelsBuilt = 0
    /\ inflight = NoInsert
    /\ call = NoCall
    /\ chatbotInitialized = FALSE
    /\ op = NoOp

-----------------------------------------------------------------------------
(* SimpleVectorDB operations *)

(* SimpleVectorDB(db_path): a new, empty store object *)
Construct ==
    /\ ~created
    /\ created' = TRUE
    /\ documents' = <<>>
    /\ embeddings' = NoEmbeddings
    /\ op' = [name |-> "construct", args |-> <<>>, outcome |-> Return(None)]
    /\ UNCHANGED <<file, saved, argsortTies, apiKey, ragVars, auxVars>>

(* get_simple_vector_db(): on first use, a new store that tries load() *)
GetSimpleVectorDB ==
    /\ ~created
    /\ created' = TRUE
    /\ documents' = LoadedDocuments(file, <<>>)
    /\ embeddings' = LoadedEmbeddings(file, NoEmbeddings)
    /\ op' = [name |-> "get_simple_vector_db", args |-> <<>>,
              outcome |-> LoadOutcome(file)]
    /\ UNCHANGED <<file, saved, argsortTies, apiKey, ragVars, auxVars>>

Save ==
    /\ created
    /\ file' = Pickled(documents, embeddings)
    /\ saved' = Snapshot(documents, embeddings)
    /\ op' = [name |-> "save", args |-> <<>>, outcome |-> Return(None)]
    /\ UNCHANGED <<created, documents, embeddings, argsortTies, apiKey, ragVars, auxVars>>

Load ==
    /\ created
    /\ documents' = LoadedDocuments(file, documents)
    /\ embeddings' = LoadedEmbeddings(file, embeddings)
    /\ op' = [name |-> "load", args |-> <<>>, outcome |-> LoadOutcome(file)]
    /\ UNCHANGED <<created, file, saved, argsortTies, apiKey, ragVars, auxVars>>

InsertedDocumentsMerged(held, given) == held \o given

(* self.documents = documents: the list given takes the place of the one held *)
InsertedDocuments(held, given) == given

(* insert_documents(documents, embeddings): replace, then save().  held is *)
(* the number of documents the store held when the call was made.          *)
InsertDocuments ==
    /\ created
    /\ \E ing \in Insertions(MaxInsert) :
        LET docs == InsertedDocuments(documents, ing.documents)
            emb == Matrix(ing.embeddings)
        IN  /\ documents' = docs
            /\ embeddings' = emb
            /\ file' = Pickled(docs, emb)
            /\ saved' = Snapshot(docs, emb)
            /\ op' = [name |-> "insert_documents",
                      args |-> [documents |-> ing.documents,
                                embeddings |-> Matrix(ing.embeddings)],
                      held |-> Len(documents),
                      outcome |-> Return(None)]
    /\ UNCHANGED <<created, argsortTies, apiKey, ragVars, auxVars>>

StoredAfterSearchAliased(docs, outcome) ==
    IF outcome.kind # "return" THEN docs
    ELSE [i \in 1..Len(docs) |->
            IF \E j \in 1..Len(outcome.value) : outcome.value[j].id = docs[i].id
            THEN outcome.value[CHOOSE j \in 1..Len(outcome.value) :
                                   outcome.value[j].id = docs[i].id]
            ELSE docs[i]]

(* doc = filtered_documents[idx].copy(); doc['score'] = score: the score   *)
(* is set on a copy, the stored dicts stay as they were.                   *)
StoredAfterSearch(docs, outcome) == docs

(* A search call with its arguments drawn from the given sets *)
SearchWith(queries, ks, filters, thresholds) ==
    /\ created
    /\ \E q \in queries, k \in ks, f \in filters, ms \in thresholds :
        LET outcome == search(documents, embeddings, q, k, f, ms, argsortTies)
        IN  /\ op' = [name |-> "search",
                      args |-> [query_embedding |-> q, top_k |-> k,
                                dbti_filter |-> f, min_score |-> ms],
                      outcome |-> outcome]
            /\ documents' = StoredAfterSearch(documents, outcome)
    /\ UNCHANGED <<created, embeddings, file, saved, argsortTies, apiKey, ragVars,
                   auxVars>>

Search == SearchWith(QueryVecs, TopKs, FilterValues, MinScores)

-----------------------------------------------------------------------------
(* The environment of the store *)

(* The backing file is removed *)
FileRemoved ==
    /\ file.state # "missing"
    /\ file' = NoFile
    /\ op' = NoOp
    /\ UNCHANGED <<created, documents, embeddings, saved, argsortTies, apiKey, ragVars, auxVars>>

(* The backing file is damaged: it no longer unpickles *)
FileTruncated ==
    /\ file.state = "dict"
    /\ file' = Undecodable
    /\ op' = NoOp
    /\ UNCHANGED <<created, documents, embeddings, saved, argsortTies, apiKey, ragVars, auxVars>>

(* The backing file is replaced by a pickle that lacks one of the entries *)
FileLacksEntry ==
    /\ file.state = "dict"
    /\ file.keys = {"documents", "embeddings"}
    /\ \E k \in {"documents", "embeddings"} :
        file' = [file EXCEPT !.keys = @ \ {k},
                             !.documents = IF k = "documents" THEN <<>> ELSE @,
                             !.embeddings = IF k = "embeddings" THEN NoEmbeddings ELSE @]
    /\ op' = NoOp
    /\ UNCHANGED <<created, documents, embeddings, saved, argsortTies, apiKey, ragVars, auxVars>>

(* The process ends; the next one starts with no store object *)
ProcessRestart ==
    /\ created
    /\ created' = FALSE
    /\ documents' = <<>>
    /\ embeddings' = NoEmbeddings
    /\ modelLoaded' = FALSE
    /\ ragInitialized' = FALSE
    /\ openrouterAvailable' = FALSE
    /\ modelsBuilt' = 0
    /\ op' = NoOp
    /\ UNCHANGED <<file, saved, argsortTies, apiKey, callVars>>

-----------------------------------------------------------------------------
(* The life of the store: construction, ingestion, persistence, restarts   *)

Next ==
    \/ Construct
    \/ GetSimpleVectorDB
    \/ Save
    \/ Load
    \/ InsertDocuments
    \/ FileRemoved
    \/ FileTruncated
    \/ FileLacksEntry
    \/ ProcessRestart

Spec == Init /\ [][Next]_vars

-----------------------------------------------------------------------------
(* Searches of a store: a store object just constructed, or one that an    *)
(* ingestion run has populated and persisted, then queried any number of   *)
(* times.                                                                  *)

InitSearch ==
    /\ created = TRUE
    /\ \/ /\ documents = <<>>
          /\ embeddings = NoEmbeddings
          /\ file = NoFile
          /\ saved = NothingSaved
       \/ \E ing \in Ingestions(MaxDocs) :
            /\ documents = ing.documents
            /\ embeddings = Matrix(ing.embeddings)
            /\ file = Pickled(ing.documents, Matrix(ing.embeddings))
            /\ saved = Snapshot(ing.documents, Matrix(ing.embeddings))
    /\ argsortTies \in TieOrders
    /\ apiKey = FALSE
    /\ modelLoaded = FALSE
    /\ ragInitialized = FALSE
    /\ openrouterAvailable = FALSE
    /\ modelsBuilt = 0
    /\ inflight = NoInsert
    /\ call = NoCall
    /\ chatbotInitialized = FALSE
    /\ op = NoOp

NextSearch == Search

SpecSearch == InitSearch /\ [][NextSearch]_vars

-----------------------------------------------------------------------------
(* SimpleRAGService, rag_simple.py                                         *)

Queries == {"walk", "bark"}

(* EmbeddingService.encode_text: the embedding model's vector of a query   *)
encode_text(query) == IF query = "walk" THEN <<1, 0>> ELSE <<-1, 0>>

ComposeTopKs == {1, 3}

(* What the provider does with a chat completion request *)
GatewayBehaviours == {"ok", "network_error", "timeout", "http_error", "malformed"}

(* SimpleVectorDB.search bound to the keywords of a call: the method has   *)
(* the parameters query_embedding, top_k, dbti_filter and min_score; any   *)
(* other keyword is a TypeError before the body runs.                      *)
SearchParameters == {"query_embedding", "top_k", "dbti_filter", "min_score"}

CallSearch(docs, emb, kwargs, ties) ==
    IF ~(DOMAIN kwargs \subseteq SearchParameters) THEN Raise("TypeError")
    ELSE search(docs, emb, kwargs.query_embedding, kwargs.top_k,
                kwargs.dbti_filter, kwargs.min_score, ties)

(* SimpleRAGService.initialize, rag_simple.py:29-56: load the embedding    *)
(* model, load the store, look for the API key.  weights: the embedding    *)
(* model can be loaded.                                                    *)
InitializeOutcome(initialized, loaded, weights, f) ==
    IF initialized THEN Return(None)
    ELSE IF ~loaded /\ ~weights THEN Raise("ModelLoadError")
    ELSE IF LoadOutcome(f).kind = "raise" THEN LoadOutcome(f)
    ELSE Return(None)

InitializeLoadsModel(initialized, loaded, weights) ==
    loaded \/ (~initialized /\ weights)

(* The SentenceTransformer objects constructed so far, after initialize *)
BuiltAfter(initialized, loaded, weights, built) ==
    IF ~loaded /\ InitializeLoadsModel(initialized, loaded, weights)
    THEN built + 1 ELSE built

InitializeLoadsStore(initialized, loaded, weights) ==
    ~initialized /\ (loaded \/ weights)

(* SimpleRAGService.retrieve_context, rag_simple.py:58-93 *)
RetrieveContext(docs, emb, query, top_k, pawna_filter, min_score, ties) ==
    CallSearch(docs, emb,
               [query_embedding |-> encode_text(query), top_k |-> top_k,
                pawna_filter |-> pawna_filter, min_score |-> min_score],
               ties)

(* rag_service.initialize() at application startup, main.py:67-76 *)
Initialize ==
    /\ created
    /\ ~ragInitialized
    /\ \E weights \in (IF modelLoaded THEN {TRUE} ELSE BOOLEAN) :
        LET out == InitializeOutcome(ragInitialized, modelLoaded, weights, file)
            loads == InitializeLoadsStore(ragInitialized, modelLoaded, weights)
        IN  /\ modelLoaded' = InitializeLoadsModel(ragInitialized, modelLoaded, weights)
            /\ modelsBuilt' = BuiltAfter(ragInitialized, modelLoaded, weights, modelsBuilt)
            /\ documents' = IF loads THEN LoadedDocuments(file, documents) ELSE documents
            /\ embeddings' = IF loads THEN LoadedEmbeddings(file, embeddings) ELSE embeddings
            /\ ragInitialized' = (out.kind = "return")
            /\ openrouterAvailable' = (out.kind = "return" /\ apiKey)
            /\ op' = [name |-> "initialize", args |-> <<>>, outcome |-> out]
    /\ UNCHANGED <<created, file, saved, argsortTies, apiKey, callVars>>

(* SimpleRAGService.format_context, rag_simple.py:95-116 (the same text as *)
(* RAGService.format_context, rag.py:84-105): the sentinel for no          *)
(* documents, else one numbered block per document, joined by blank lines; *)
(* a document with no pawna_code key is a KeyError.  A string is the       *)
(* sequence of its pieces; the empty string is <<>>.                       *)
NoInformation == <<"no related information found">>

BlankLine == [separator |-> "blank line"]

(* "\n\n".join(parts) *)
Join(parts, sep) ==
    IF parts = <<>> THEN <<>>
    ELSE [j \in 1..(2 * Len(parts) - 1) |->
            IF j % 2 = 1 THEN parts[(j + 1) \div 2] ELSE sep]

(* f"{score:.2f}": the score in hundredths *)
TwoDecimals(score) == (score * 100) \div ScoreScale

ContextPartsFromZero(retrieved_docs) ==
    [i \in 1..Len(retrieved_docs) |->
        [number |-> i - 1,
         title |-> retrieved_docs[i].title,
         content |-> retrieved_docs[i].content,
         pawna_code |-> retrieved_docs[i].pawna_code,
         score |-> TwoDecimals(retrieved_docs[i].score)]]

(* for i, doc in enumerate(retrieved_docs, 1): context_parts.append(...) *)
ContextParts(retrieved_docs) ==
    [i \in 1..Len(retrieved_docs) |->
        [number |-> i,
         title |-> retrieved_docs[i].title,
         content |-> retrieved_docs[i].content,
         pawna_code |-> retrieved_docs[i].pawna_code,
         score |-> TwoDecimals(retrieved_docs[i].score)]]

SentinelOrEmpty(retrieved_docs) == <<>>

(* if not retrieved_docs: return "..." *)
Sentinel(retrieved_docs) == NoInformation

format_context(retrieved_docs) ==
    IF retrieved_docs = <<>> THEN Return(Sentinel(retrieved_docs))
    ELSE IF \E i \in 1..Len(retrieved_docs) : retrieved_docs[i].pawna_code = None
         THEN Raise("KeyError")
         ELSE Return(Join(ContextParts(retrieved_docs), BlankLine))

Titles(retrieved_docs) == [i \in 1..Len(retrieved_docs) |-> retrieved_docs[i].title]

Confidence(retrieved_docs) ==
    IF retrieved_docs # <<>> THEN retrieved_docs[1].score ELSE 0

(* PromptTemplates.format_response_with_sources, prompts.py:117-136 *)
format_response_with_sources(response, sources) ==
    IF sources = <<>> THEN <<response>>
    ELSE <<response, <<"references", sources>>>>

(* The generated text of a well-formed completion *)
Generated == <<"generated">>

(* The response of the generator branch, rag_simple.py:170-187 *)
GeneratedResponse(retrieved_docs, context) ==
    [response |-> format_response_with_sources(Generated, Titles(retrieved_docs)),
     context |-> context,
     sources |-> Titles(retrieved_docs),
     num_sources |-> Len(retrieved_docs),
     confidence |-> Confidence(retrieved_docs),
     llm_used |-> TRUE]

NothingFound == <<"sorry, nothing related found; please ask another question">>

(* The text of the search-only branch, rag_simple.py:195-210 *)
FallbackText(retrieved_docs, pawna_type) ==
    IF retrieved_docs # <<>>
    THEN <<<<"tip", retrieved_docs[1].content>>>>
         \o (IF Len(retrieved_docs) > 1
             THEN <<<<"additional references", Tail(Titles(retrieved_docs))>>>>
             ELSE <<>>)
         \o (IF Truthy(pawna_type) THEN <<<<"tailored to type", pawna_type>>>> ELSE <<>>)
    ELSE NothingFound

(* The response of the search-only branch, rag_simple.py:212-219 *)
FallbackResponse(retrieved_docs, context, pawna_type) ==
    [response |-> FallbackText(retrieved_docs, pawna_type),
     context |-> context,
     sources |-> Titles(retrieved_docs),
     num_sources |-> Len(retrieved_docs),
     confidence |-> Confidence(retrieved_docs),
     llm_used |-> FALSE]

(* OpenRouterClient.chat_completion, openrouter.py:46-108: without an API  *)
(* key a ValueError before anything is sent; else one POST, whose failure  *)
(* is logged and raised again.  requests: the POSTs sent to the provider.  *)
Completion == [choices |-> <<[message |-> [content |-> Generated]]>>]
MalformedCompletion == [error |-> "no choices"]

chat_completion(api_key, gateway) ==
    IF ~api_key THEN [outcome |-> Raise("ValueError"), requests |-> 0]
    ELSE [outcome |->
              CASE gateway = "ok" -> Return(Completion)
                [] gateway = "malformed" -> Return(MalformedCompletion)
                [] gateway = "network_error" -> Raise("ConnectError")
                [] gateway = "timeout" -> Raise("TimeoutException")
                [] gateway = "http_error" -> Raise("HTTPStatusError"),
          requests |-> 1]

(* result['choices'][0]['message']['content'], rag_simple.py:171 *)
ExtractContent(result) ==
    IF "choices" \in DOMAIN result
    THEN Return(result.choices[1].message.content)
    ELSE Raise("KeyError")

(* The condition of the generator branch, rag_simple.py:148 *)
UsesGenerator(retrieved_docs, use_llm, available) ==
    use_llm /\ available /\ retrieved_docs # <<>>

(* The generator branch, rag_simple.py:149-192: the generated text, or the *)
(* exception that the except clause catches                                *)
GeneratorBranch(api_key, gateway) ==
    LET result == chat_completion(api_key, gateway).outcome
    IN  IF result.kind = "raise" THEN result ELSE ExtractContent(result.value)

(* generate_response_with_context after retrieve_context has returned,     *)
(* rag_simple.py:144-219: every failure of the generator branch is caught  *)
(* and falls through to the search-only branch.                            *)
ComposeBody(retrieved_docs, pawna_type, use_llm, available, api_key, gateway) ==
    LET context == format_context(retrieved_docs)
    IN  IF context.kind = "raise" THEN context
        ELSE IF /\ UsesGenerator(retrieved_docs, use_llm, available)
                /\ GeneratorBranch(api_key, gateway).kind = "return"
        THEN Return(GeneratedResponse(retrieved_docs, context.value))
        ELSE Return(FallbackResponse(retrieved_docs, context.value, pawna_type))

(* The POSTs a run of the body sends to the provider *)
ComposeRequests(retrieved_docs, use_llm, available, api_key, gateway) ==
    IF /\ format_context(retrieved_docs).kind = "return"
       /\ UsesGenerator(retrieved_docs, use_llm, available)
    THEN chat_completion(api_key, gateway).requests
    ELSE 0

(* SimpleRAGService.generate_response_with_context ("compose"),            *)
(* rag_simple.py:118-219.  The call of retrieve_context comes first: it    *)
(* initializes the service when needed, embeds the query and calls the     *)
(* store's search with the keyword pawna_filter; whatever it raises leaves *)
(* compose, since the call is outside the try block.  gateway: what the    *)
(* provider would do with this request's chat completion; weights: the     *)
(* embedding model can be loaded.                                          *)
AvailableAfter(weights) ==
    LET ini == InitializeOutcome(ragInitialized, modelLoaded, weights, file)
    IN  IF ragInitialized THEN openrouterAvailable
        ELSE (ini.kind = "return" /\ apiKey)

DocumentsAfter(weights) ==
    IF InitializeLoadsStore(ragInitialized, modelLoaded, weights)
    THEN LoadedDocuments(file, documents) ELSE documents

EmbeddingsAfter(weights) ==
    IF InitializeLoadsStore(ragInitialized, modelLoaded, weights)
    THEN LoadedEmbeddings(file, embeddings) ELSE embeddings

Retrieved(query, pawna_type, top_k, weights) ==
    RetrieveContext(DocumentsAfter(weights), EmbeddingsAfter(weights), query,
                    top_k, pawna_type, ConfiguredMinScore, argsortTies)

ComposeOutcome(query, pawna_type, top_k, use_llm, gateway, weights) ==
    LET ini == InitializeOutcome(ragInitialized, modelLoaded, weights, file)
        retrieved == Retrieved(query, pawna_type, top_k, weights)
    IN  IF ini.kind = "raise" THEN ini
        ELSE IF retrieved.kind = "raise" THEN retrieved
        ELSE ComposeBody(retrieved.value, pawna_type, use_llm,
                         AvailableAfter(weights), apiKey, gateway)

RequestsSent(query, pawna_type, top_k, use_llm, gateway, weights) ==
    LET ini == InitializeOutcome(ragInitialized, modelLoaded, weights, file)
        retrieved == Retrieved(query, pawna_type, top_k, weights)
    IN  IF ini.kind = "raise" \/ retrieved.kind = "raise" THEN 0
        ELSE ComposeRequests(retrieved.value, use_llm, AvailableAfter(weights),
                             apiKey, gateway)

(* What a run of compose leaves in the service and the store *)
ComposeEffects(weights) ==
    LET ini == InitializeOutcome(ragInitialized, modelLoaded, weights, file)
    IN  /\ modelLoaded' = InitializeLoadsModel(ragInitialized, modelLoaded, weights)
        /\ modelsBuilt' = BuiltAfter(ragInitialized, modelLoaded, weights, modelsBuilt)
        /\ documents' = DocumentsAfter(weights)
        /\ embeddings' = EmbeddingsAfter(weights)
        /\ ragInitialized' = (ini.kind = "return")
        /\ openrouterAvailable' = AvailableAfter(weights)

Compose ==
    /\ created
    /\ \E query \in Queries, pawna_type \in FilterValues, top_k \in ComposeTopKs,
          use_llm \in BOOLEAN, gateway \in GatewayBehaviours,
          weights \in (IF modelLoaded THEN {TRUE} ELSE BOOLEAN) :
        /\ ComposeEffects(weights)
        /\ op' = [name |-> "generate_response_with_context",
                  args |-> [query |-> query, pawna_type |-> pawna_type,
                            top_k |-> top_k, use_llm |-> use_llm,
                            gateway |-> gateway],
                  outcome |-> ComposeOutcome(query, pawna_type, top_k, use_llm,
                                             gateway, weights),
                  requests |-> RequestsSent(query, pawna_type, top_k, use_llm,
                                            gateway, weights)]
    /\ UNCHANGED <<created, file, saved, argsortTies, apiKey, callVars>>

(* The chat endpoint, routers/chat.py:22-62.  The request model rejects an *)
(* empty message before the handler runs (models/chat.py:28).  The handler *)
(* calls compose with the keywords query, dbti_type, top_k and use_llm,    *)
(* inside a try whose except clause answers with an apology.               *)
Messages == Queries \cup {""}

GenerateParameters == {"query", "pawna_type", "top_k", "use_llm"}
ChatKeywords == {"query", "dbti_type", "top_k", "use_llm"}
ChatTopK == 3

Apology == <<"sorry, a temporary error occurred; please try again shortly">>

ErrorChatResponse == [message |-> Apology, sources |-> <<>>, confidence |-> 0]

ChatResponseOfUnguarded(result) ==
    IF result.kind = "raise" THEN result
    ELSE Return([message |-> result.value.response,
                 sources |-> result.value.sources,
                 confidence |-> result.value.confidence])

(* try: ... return ChatResponse(...)  except Exception: return ChatResponse(...) *)
ChatResponseOf(result) ==
    IF result.kind = "raise" THEN Return(ErrorChatResponse)
    ELSE Return([message |-> result.value.response,
                 sources |-> result.value.sources,
                 confidence |-> result.value.confidence])

Chat ==
    /\ created
    /\ \E message \in Messages, dbti_type \in FilterValues,
          gateway \in GatewayBehaviours,
          weights \in (IF modelLoaded THEN {TRUE} ELSE BOOLEAN) :
        LET args == [message |-> message, dbti_type |-> dbti_type,
                     gateway |-> gateway]
        IN  IF message = ""
            THEN /\ op' = [name |-> "chat", args |-> args,
                           outcome |-> Raise("RequestValidationError")]
                 /\ UNCHANGED <<documents, embeddings, ragVars, modelsBuilt>>
            ELSE IF ChatKeywords \subseteq GenerateParameters
            THEN /\ ComposeEffects(weights)
                 /\ op' = [name |-> "chat", args |-> args,
                           outcome |-> ChatResponseOf(
                               ComposeOutcome(message, dbti_type, ChatTopK, TRUE,
                                              gateway, weights))]
            ELSE /\ op' = [name |-> "chat", args |-> args,
                           outcome |-> ChatResponseOf(Raise("TypeError"))]
                 /\ UNCHANGED <<documents, embeddings, ragVars, modelsBuilt>>
    /\ UNCHANGED <<created, file, saved, argsortTies, apiKey, callVars>>

(* The RAG service of a running process: the store object exists and has   *)
(* loaded the file an ingestion run left, or has found no file.            *)
InitRAG ==
    /\ created = TRUE
    /\ \/ /\ documents = <<>>
          /\ embeddings = NoEmbeddings
          /\ file = NoFile
          /\ saved = NothingSaved
       \/ \E ing \in Ingestions(MaxCorpus) :
            /\ documents = ing.documents
            /\ embeddings = Matrix(ing.embeddings)
            /\ file = Pickled(ing.documents, Matrix(ing.embeddings))
            /\ saved = Snapshot(ing.documents, Matrix(ing.embeddings))
    /\ argsortTies \in TieOrders
    /\ apiKey \in BOOLEAN
    /\ modelLoaded = FALSE
    /\ ragInitialized = FALSE
    /\ openrouterAvailable = FALSE
    /\ modelsBuilt = 0
    /\ inflight = NoInsert
    /\ call = NoCall
    /\ chatbotInitialized = FALSE
    /\ op = NoOp

NextRAG ==
    \/ Initialize
    \/ Compose
    \/ Chat

SpecRAG == InitRAG /\ [][NextRAG]_vars

-----------------------------------------------------------------------------
(* OpenRouterClient.format_messages, openrouter.py:129-170                 *)

Roles == {"system", "user", "assistant"}    \* ChatMessage.role, models/chat.py:11

HistoryWindow == 5                          \* conversation_history[-5:]

SystemPrompt == "system prompt"
Contexts == {None, "", "context"}

(* The i-th turn of a conversation, as the dict of a ChatMessage *)
Turn(i, role) == [role |-> role, content |-> <<"turn", i>>]

(* conversation_history: None (given = FALSE), or a list of turns *)
NoHistory == [given |-> FALSE, turns |-> <<>>]

Histories ==
    {NoHistory} \cup {[given |-> TRUE,
                       turns |-> [i \in 1..Len(roles) |-> Turn(i, roles[i])]] :
                         roles \in SeqsUpTo(Roles, MaxHistory)}

(* s[-k:] for k > 0 *)
SliceLast(s, k) ==
    SubSeq(s, (IF Len(s) > k THEN Len(s) - k ELSE 0) + 1, Len(s))

RecentTurnsOldest(conversation_history) ==
    SliceTo(conversation_history, HistoryWindow)

(* conversation_history[-5:] *)
RecentTurns(conversation_history) ==
    SliceLast(conversation_history, HistoryWindow)

FullSystemPromptBare(system_prompt, context) == <<system_prompt>>

(* full_system_prompt: the system prompt, and the context under a heading  *)
(* when there is one                                                       *)
FullSystemPrompt(system_prompt, context) ==
    IF Truthy(context) THEN <<system_prompt, "reference information", context>>
    ELSE <<system_prompt>>

format_messages(system_prompt, user_message, context, conversation_history) ==
    <<[role |-> "system", content |-> FullSystemPrompt(system_prompt, context)]>>
    \o (IF conversation_history.given /\ conversation_history.turns # <<>>
        THEN RecentTurns(conversation_history.turns) ELSE <<>>)
    \o <<[role |-> "user", content |-> <<user_message>>]>>

(* A call of format_messages that has not run yet *)
PendingCalls ==
    {[name |-> "call format_messages",
      args |-> [system_prompt |-> SystemPrompt,
                user_message |-> user_message,
                context |-> context,
                conversation_history |-> conversation_history],
      outcome |-> Return(None)] :
        user_message \in Queries, context \in Contexts,
        conversation_history \in Histories}

FormatMessages ==
    /\ op.name = "call format_messages"
    /\ op' = [name |-> "format_messages",
              args |-> op.args,
              outcome |-> Return(format_messages(op.args.system_prompt,
                                                 op.args.user_message,
                                                 op.args.context,
                                                 op.args.conversation_history))]
    /\ UNCHANGED <<storeVars, argsortTies, apiKey, ragVars, auxVars>>

(* The message sequences of a client: a call with any prompt, context and  *)
(* history, and its result.                                                *)
InitMessages ==
    /\ created = FALSE
    /\ documents = <<>>
    /\ embeddings = NoEmbeddings
    /\ file = NoFile
    /\ saved = NothingSaved
    /\ argsortTies \in TieOrders
    /\ apiKey = FALSE
    /\ modelLoaded = FALSE
    /\ ragInitialized = FALSE
    /\ openrouterAvailable = FALSE
    /\ modelsBuilt = 0
    /\ inflight = NoInsert
    /\ call = NoCall
    /\ chatbotInitialized = FALSE
    /\ op \in PendingCalls

NextMessages == FormatMessages

SpecMessages == InitMessages /\ [][NextMessages]_vars

-----------------------------------------------------------------------------
(* insert_documents on one thread while another thread searches,           *)
(* vector_db_simple.py:58-70 and 72-133.  The method holds no lock: its    *)
(* two assignments and its save are separate steps, and a search may run   *)
(* between any two of them.  inflight keeps the arguments of the call in   *)
(* progress and, as history, the pair the store held when it began.        *)

InsertBegin ==
    /\ created
    /\ inflight.pc = "idle"
    /\ \E ing \in Ingestions(MaxCorpus) :
        inflight' = [pc |-> "called",
                     documents |-> ing.documents,
                     embeddings |-> Matrix(ing.embeddings),
                     oldDocuments |-> documents,
                     oldEmbeddings |-> embeddings]
    /\ UNCHANGED <<storeVars, argsortTies, apiKey, ragVars, modelsBuilt, call,
                   chatbotInitialized, op>>

(* self.documents = documents *)
InsertAssignDocuments ==
    /\ inflight.pc = "called"
    /\ documents' = inflight.documents
    /\ inflight' = [inflight EXCEPT !.pc = "documents assigned"]
    /\ UNCHANGED <<created, embeddings, file, saved, argsortTies, apiKey, ragVars,
                   modelsBuilt, call, chatbotInitialized, op>>

(* self.embeddings = embeddings *)
InsertAssignEmbeddings ==
    /\ inflight.pc = "documents assigned"
    /\ embeddings' = inflight.embeddings
    /\ inflight' = [inflight EXCEPT !.pc = "embeddings assigned"]
    /\ UNCHANGED <<created, documents, file, saved, argsortTies, apiKey, ragVars,
                   modelsBuilt, call, chatbotInitialized, op>>

(* self.save(), and the call returns *)
InsertSave ==
    /\ inflight.pc = "embeddings assigned"
    /\ file' = Pickled(documents, embeddings)
    /\ saved' = Snapshot(documents, embeddings)
    /\ inflight' = NoInsert
    /\ op' = [name |-> "insert_documents",
              args |-> [documents |-> inflight.documents,
                        embeddings |-> inflight.embeddings.rows],
              outcome |-> Return(None)]
    /\ UNCHANGED <<created, documents, embeddings, argsortTies, apiKey, ragVars,
                   modelsBuilt, call, chatbotInitialized>>

(* The searches of the serving thread: every document, the best MaxK *)
ConcurrentSearch == SearchWith({<<1, 0>>}, {MaxK}, {None}, {0})

NextConcurrent ==
    \/ InsertBegin
    \/ InsertAssignDocuments
    \/ InsertAssignEmbeddings
    \/ InsertSave
    \/ ConcurrentSearch

SpecConcurrent == InitRAG /\ [][NextConcurrent]_vars

-----------------------------------------------------------------------------
(* generate_response_with_context step by step, rag_simple.py:118-219:     *)
(* SEARCHING is the call of retrieve_context (137-142), EMPTY and FOUND    *)
(* what it returned, on which the context is formatted and the branch      *)
(* taken (144-148), GENERATING the try block (149-187), FAILED its except  *)
(* clause (189-192), DIRECT the search-only branch (194-219).  call keeps  *)
(* the position, the phases passed, the retrieved documents and the number *)
(* of requests sent to the provider.                                       *)

ComposeBegin ==
    /\ created
    /\ call.pc = "idle"
    /\ \E query \in Queries, pawna_type \in FilterValues, top_k \in ComposeTopKs,
          use_llm \in BOOLEAN, gateway \in GatewayBehaviours,
          weights \in (IF modelLoaded THEN {TRUE} ELSE BOOLEAN) :
        call' = [pc |-> "SEARCHING",
                 args |-> [query |-> query, pawna_type |-> pawna_type,
                           top_k |-> top_k, use_llm |-> use_llm,
                           gateway |-> gateway, weights |-> weights],
                 trace |-> <<"SEARCHING">>,
                 retrieved |-> <<>>,
                 requests |-> 0]
    /\ op' = NoOp
    /\ UNCHANGED <<storeVars, argsortTies, apiKey, ragVars, modelsBuilt, inflight,
                   chatbotInitialized>>

(* The call ends: it returns a response or lets an exception out *)
Finished(outcome) ==
    [name |-> "compose",
     args |-> call.args,
     trace |-> Append(call.trace, IF outcome.kind = "return" THEN "DONE" ELSE "RAISED"),
     outcome |-> outcome,
     requests |-> call.requests]

Moved(pc) == [call EXCEPT !.pc = pc, !.trace = Append(@, pc)]

ComposeStep ==
    /\ call.pc # "idle"
    /\ IF call.pc = "SEARCHING"
       THEN LET a == call.args
                ini == InitializeOutcome(ragInitialized, modelLoaded, a.weights, file)
                retrieved == Retrieved(a.query, a.pawna_type, a.top_k, a.weights)
            IN  /\ ComposeEffects(a.weights)
                /\ IF ini.kind = "raise"
                   THEN call' = NoCall /\ op' = Finished(ini)
                   ELSE IF retrieved.kind = "raise"
                   THEN call' = NoCall /\ op' = Finished(retrieved)
                   ELSE /\ call' = [Moved(IF retrieved.value = <<>>
                                          THEN "EMPTY" ELSE "FOUND")
                                       EXCEPT !.retrieved = retrieved.value]
                        /\ UNCHANGED op
       ELSE /\ UNCHANGED <<documents, embeddings, ragVars, modelsBuilt>>
            /\ LET a == call.args
                   context == format_context(call.retrieved)
               IN  CASE call.pc \in {"EMPTY", "FOUND"} ->
                          IF context.kind = "raise"
                          THEN call' = NoCall /\ op' = Finished(context)
                          ELSE /\ call' = Moved(IF UsesGenerator(call.retrieved, a.use_llm,
                                                                 openrouterAvailable)
                                                THEN "GENERATING" ELSE "DIRECT")
                               /\ UNCHANGED op
                     [] call.pc = "GENERATING" ->
                          LET sent == [call EXCEPT !.requests =
                                           @ + chat_completion(apiKey, a.gateway).requests]
                          IN  IF GeneratorBranch(apiKey, a.gateway).kind = "return"
                              THEN /\ call' = NoCall
                                   /\ op' = [Finished(Return(GeneratedResponse(
                                                 call.retrieved, context.value)))
                                                EXCEPT !.requests = sent.requests]
                              ELSE /\ call' = [sent EXCEPT !.pc = "FAILED",
                                                           !.trace = Append(@, "FAILED")]
                                   /\ UNCHANGED op
                     [] call.pc = "FAILED" ->
                          call' = Moved("DIRECT") /\ UNCHANGED op
                     [] call.pc = "DIRECT" ->
                          /\ call' = NoCall
                          /\ op' = Finished(Return(FallbackResponse(
                                       call.retrieved, context.value, a.pawna_type)))
    /\ UNCHANGED <<created, file, saved, argsortTies, apiKey, inflight,
                   chatbotInitialized>>

NextCompose ==
    \/ ComposeBegin
    \/ ComposeStep

SpecCompose == InitRAG /\ [][NextCompose]_vars

-----------------------------------------------------------------------------
(* SimpleRAGService.search_by_pawna, rag_simple.py:221-237, on the         *)
(* documents of an initialized service:                                    *)
(* [doc for doc in self.vector_db.documents                                *)
(*      if doc['pawna_code'] == pawna_code][:top_k]                        *)
(* doc['pawna_code'] raises KeyError on a document without the key.        *)
SearchByPawnaTopK == 10

search_by_pawna(docs, pawna_code, top_k) ==
    IF \E i \in 1..Len(docs) : docs[i].pawna_code = None THEN Raise("KeyError")
    ELSE Return(SliceTo(SelectSeq(docs, LAMBDA doc : doc.pawna_code = pawna_code),
                        top_k))

-----------------------------------------------------------------------------
(* ChatbotService, chatbot.py:24-171.  generate_response initializes the   *)
(* service outside its try block, then inside it retrieves, generates with *)
(* the LLM or asks the RAG service for its text, and returns a dict; the   *)
(* except clause returns the apology dict.                                 *)

RetrieveParameters == {"query", "top_k", "pawna_filter", "min_score"}
RetrieveKeywords == {"query", "top_k", "dbti_filter", "min_score"}
ChatbotTopK == 3

(* The static methods of PromptTemplates, prompts.py:8-140 *)
PromptTemplatesMethods ==
    {"get_system_prompt", "get_rag_prompt", "get_fallback_prompt",
     "get_greeting_prompt", "format_response_with_sources"}

(* ChatbotService.initialize, chatbot.py:24-44: whatever the RAG service's *)
(* initialize raises is logged and raised again                            *)
ChatbotInitializeOutcome(initialized, weights) ==
    IF initialized THEN Return(None)
    ELSE InitializeOutcome(ragInitialized, modelLoaded, weights, file)

(* self.rag_service.retrieve_context(query=, top_k=3, dbti_filter=, min_score=0.3) *)
ChatbotRetrieved(user_query, dbti_type, weights) ==
    IF ~(RetrieveKeywords \subseteq RetrieveParameters) THEN Raise("TypeError")
    ELSE RetrieveContext(DocumentsAfter(weights), EmbeddingsAfter(weights),
                         user_query, ChatbotTopK, dbti_type, ConfiguredMinScore,
                         argsortTies)

(* ChatbotService._generate_llm_response, chatbot.py:125-171 *)
GenerateLLMResponse(api_key, gateway) ==
    IF "create_conversation_messages" \notin PromptTemplatesMethods
    THEN Raise("AttributeError")
    ELSE LET result == chat_completion(api_key, gateway).outcome
         IN  IF result.kind = "raise" THEN result
             ELSE IF "choices" \in DOMAIN result.value
             THEN Return(result.value.choices[1].message.content)
             ELSE Raise("ValueError")

(* The branch without the LLM, chatbot.py:93-101: the coroutine that       *)
(* generate_response_with_context returns is not awaited, so indexing it   *)
(* raises TypeError, as does the keyword dbti_type before that.            *)
RagOnlyResponse == Raise("TypeError")

ChatbotApology(exc) ==
    [response |-> Apology, sources |-> <<>>, num_sources |-> 0, confidence |-> 0,
     method |-> "fallback", error |-> exc]

(* The try block, chatbot.py:70-110 *)
ChatbotBody(user_query, dbti_type, use_llm, gateway, weights) ==
    LET context_docs == ChatbotRetrieved(user_query, dbti_type, weights)
        uses_llm == use_llm /\ apiKey
        text == IF uses_llm THEN GenerateLLMResponse(apiKey, gateway)
                ELSE RagOnlyResponse
    IN  IF context_docs.kind = "raise" THEN context_docs
        ELSE IF text.kind = "raise" THEN text
        ELSE Return([response |-> text.value,
                     sources |-> Titles(context_docs.value),
                     num_sources |-> Len(context_docs.value),
                     confidence |-> Confidence(context_docs.value),
                     method |-> IF uses_llm THEN "RAG + LLM" ELSE "RAG only",
                     dbti_type |-> dbti_type])

(* except Exception as e: return {...} *)
ChatbotGuarded(result) ==
    IF result.kind = "raise" THEN Return(ChatbotApology(result.exc)) ELSE result

generate_response(initialized, user_query, dbti_type, use_llm, gateway, weights) ==
    LET ini == ChatbotInitializeOutcome(initialized, weights)
    IN  IF ini.kind = "raise" THEN ini
        ELSE ChatbotGuarded(ChatbotBody(user_query, dbti_type, use_llm, gateway,
                                        weights))

GenerateResponse ==
    /\ created
    /\ \E user_query \in Queries, dbti_type \in FilterValues, use_llm \in BOOLEAN,
          gateway \in GatewayBehaviours,
          weights \in (IF modelLoaded THEN {TRUE} ELSE BOOLEAN) :
        /\ IF chatbotInitialized
           THEN UNCHANGED <<documents, embeddings, ragVars, modelsBuilt>>
           ELSE ComposeEffects(weights)
        /\ chatbotInitialized' =
               (ChatbotInitializeOutcome(chatbotInitialized, weights).kind = "return")
        /\ op' = [name |-> "generate_response",
                  args |-> [user_query |-> user_query, dbti_type |-> dbti_type,
                            use_llm |-> use_llm, gateway |-> gateway],
                  outcome |-> generate_response(chatbotInitialized, user_query,
                                                dbti_type, use_llm, gateway, weights)]
    /\ UNCHANGED <<created, file, saved, argsortTies, apiKey, inflight, call>>

NextChatbot == GenerateResponse

SpecChatbot == InitRAG /\ [][NextChatbot]_vars

-----------------------------------------------------------------------------
(* EmbeddingService, embeddings.py:27-74, behind get_embedding_service     *)
(* (embeddings.py:96-106): one service object per process, its model None  *)
(* until a load succeeds.  weights: SentenceTransformer(model_name) can be *)
(* constructed at the time of the call.                                    *)

LoadsModelAlways(loaded, weights) == weights

(* load_model constructs a model: only when there is none *)
LoadsModel(loaded, weights) == ~loaded /\ weights

(* load_model(): what it returns or raises *)
load_model(loaded, weights) ==
    IF loaded \/ weights THEN Return(None) ELSE Raise("ModelLoadError")

Texts == SeqsUpTo(Queries, MaxBatch)

(* The service after a call that starts with load_model *)
EmbedderEffects(weights) ==
    /\ modelLoaded' = (modelLoaded \/ LoadsModel(modelLoaded, weights))
    /\ modelsBuilt' = IF LoadsModel(modelLoaded, weights)
                      THEN modelsBuilt + 1 ELSE modelsBuilt

LoadModel ==
    /\ \E weights \in BOOLEAN :
        /\ EmbedderEffects(weights)
        /\ op' = [name |-> "load_model",
                  args |-> [weights |-> weights, loaded |-> modelLoaded],
                  outcome |-> load_model(modelLoaded, weights)]
    /\ UNCHANGED <<storeVars, argsortTies, apiKey, ragInitialized,
                   openrouterAvailable, callVars>>

EncodeText ==
    /\ \E text \in Queries, weights \in BOOLEAN :
        /\ EmbedderEffects(weights)
        /\ op' = [name |-> "encode_text",
                  args |-> [weights |-> weights, loaded |-> modelLoaded,
                            text |-> text],
                  outcome |-> IF load_model(modelLoaded, weights).kind = "raise"
                              THEN load_model(modelLoaded, weights)
                              ELSE Return(encode_text(text))]
    /\ UNCHANGED <<storeVars, argsortTies, apiKey, ragInitialized,
                   openrouterAvailable, callVars>>

EncodeBatch ==
    /\ \E texts \in Texts, weights \in BOOLEAN :
        /\ EmbedderEffects(weights)
        /\ op' = [name |-> "encode_batch",
                  args |-> [weights |-> weights, loaded |-> modelLoaded,
                            texts |-> texts],
                  outcome |-> IF load_model(modelLoaded, weights).kind = "raise"
                              THEN load_model(modelLoaded, weights)
                              ELSE Return([i \in 1..Len(texts) |->
                                              encode_text(texts[i])])]
    /\ UNCHANGED <<storeVars, argsortTies, apiKey, ragInitialized,
                   openrouterAvailable, callVars>>

NextEmbedder ==
    \/ LoadModel
    \/ EncodeText
    \/ EncodeBatch

SpecEmbedder == Init /\ [][NextEmbedder]_vars

-----------------------------------------------------------------------------
(* format_context on its own: a call with any list of retrieved documents  *)

RetrievedScores == {30, 60, 100}

(* Lists of search results: copies of stored documents with their scores *)
RetrievedLists ==
    {[i \in 1..Len(ts) |-> WithScore(Document(i, ts[i][1], style), ts[i][2])] :
        ts \in SeqsUpTo(Tags \X RetrievedScores, MaxRetrieved), style \in KeyStyles}

PendingContexts ==
    {[name |-> "call format_context",
      args |-> [retrieved_docs |-> retrieved_docs],
      outcome |-> Return(None)] : retrieved_docs \in RetrievedLists}

FormatContext ==
    /\ op.name = "call format_context"
    /\ op' = [name |-> "format_context",
              args |-> op.args,
              outcome |-> format_context(op.args.retrieved_docs)]
    /\ UNCHANGED <<storeVars, argsortTies, apiKey, ragVars, auxVars>>

InitContext ==
    /\ created = FALSE
    /\ documents = <<>>
    /\ embeddings = NoEmbeddings
    /\ file = NoFile
    /\ saved = NothingSaved
    /\ argsortTies \in TieOrders
    /\ apiKey = FALSE
    /\ modelLoaded = FALSE
    /\ ragInitialized = FALSE
    /\ openrouterAvailable = FALSE
    /\ modelsBuilt = 0
    /\ inflight = NoInsert
    /\ call = NoCall
    /\ chatbotInitialized = FALSE
    /\ op \in PendingContexts

NextContext == FormatContext

SpecContext == InitContext /\ [][NextContext]_vars

-----------------------------------------------------------------------------
(* Properties of SimpleVectorDB.search                                     *)

Min(a, b) == IF a < b THEN a ELSE b

SearchDone == op.name = "search"
Found == op.outcome.value
Query == op.args.query_embedding
TopK == op.args.top_k
Filter == op.args.dbti_filter
MinScore == op.args.min_score

(* The stored documents a search ranks: those of the filter's type when a  *)
(* filter is set, all of them otherwise; each with a row of the matrix.    *)
Candidates ==
    {i \in 1..Len(documents) :
        /\ i <= Len(embeddings.rows)
        /\ Filter \in Tags => documents[i].dbti_code = Filter}

ScoreOf(i) == Similarity(embeddings.rows[i], Query)

(* C3: with a filter set to a type code X, a search returns only           *)
(* documents whose type code is X, and returns the empty sequence (no      *)
(* error, no unfiltered result) when no stored document has type X.        *)
C3_FilterCorrectness ==
    (SearchDone /\ Filter \in Tags) =>
        /\ op.outcome.kind = "return"
        /\ \A j \in 1..Len(Found) : Found[j].dbti_code = Filter
        /\ (\A i \in 1..Len(documents) : documents[i].dbti_code # Filter)
              => Found = <<>>

C3_Witness ==
    /\ SearchDone /\ Filter \in Tags
    /\ Len(Found) >= 1
    /\ \E i \in 1..Len(documents) : documents[i].dbti_code \in Tags \ {Filter}

(* C4: for every k >= 0 a search returns at most k documents.              *)
C4_TopKBound ==
    (SearchDone /\ TopK >= 0) => Len(Found) <= TopK

C4_Witness ==
    /\ SearchDone /\ TopK >= 1
    /\ Len(Found) = TopK
    /\ Cardinality({i \in Candidates : ScoreOf(i) >= MinScore}) > TopK

(* C5: every returned document's score is at least min_score.              *)
C5_Threshold ==
    SearchDone => \A j \in 1..Len(Found) : Found[j].score >= MinScore

C5_Witness ==
    /\ SearchDone
    /\ Len(Found) >= 1
    /\ Len(Found) < TopK
    /\ Len(Found) < Cardinality(Candidates)

(* C6 as claimed: the result is ordered by descending score and documents  *)
(* of equal score appear in insertion order (a document's id is its        *)
(* position in the ingested list).                                         *)
C6_InsertionOrderTies ==
    SearchDone =>
        \A i, j \in 1..Len(Found) :
            i < j => \/ Found[i].score > Found[j].score
                     \/ Found[i].score = Found[j].score /\ Found[i].id < Found[j].id

(* C6 as amended: the result is ordered by descending score; nothing is    *)
(* promised about the order of documents of equal score.                   *)
C6_ScoreDescending ==
    SearchDone =>
        \A i, j \in 1..Len(Found) : i < j => Found[i].score >= Found[j].score

C6_Witness ==
    /\ SearchDone
    /\ Len(Found) = 2
    /\ Found[1].score = Found[2].score
    /\ Found[1].id > Found[2].id
    /\ \E c \in Candidates : MinScore <= ScoreOf(c) /\ ScoreOf(c) < Found[2].score

(* The spec's scenario: three documents, the first and third of type WTIL, *)
(* the query equal to the first document's vector, k = 2, filter WTIL,     *)
(* min_score 0.0.                                                          *)
Scenario ==
    /\ SearchDone
    /\ Len(documents) = 3
    /\ documents[1].dbti_code = "WTIL"
    /\ documents[2].dbti_code = "DTIL"
    /\ documents[3].dbti_code = "WTIL"
    /\ embeddings.rows[1] = <<1, 0>>
    /\ embeddings.rows[3] = <<3, 4>>
    /\ Query = <<1, 0>> /\ TopK = 2 /\ Filter = "WTIL" /\ MinScore = 0

(* C7: a search returns exactly the k best-scoring candidates less those   *)
(* below min_score: every returned entry is a candidate carrying its own   *)
(* cosine score, no candidate is returned twice, no candidate that meets   *)
(* min_score is left out unless k better-or-equal ones are returned, and   *)
(* the length is min(k, number of candidates meeting min_score).  In the   *)
(* scenario the result is document 1 (score 1.0) then document 3.          *)
C7_Completeness ==
    SearchDone =>
        /\ op.outcome.kind = "return"
        /\ \A j \in 1..Len(Found) :
              /\ Found[j].id \in Candidates
              /\ Found[j] = WithScore(documents[Found[j].id], ScoreOf(Found[j].id))
        /\ \A i, j \in 1..Len(Found) : i # j => Found[i].id # Found[j].id
        /\ \A c \in Candidates :
              (ScoreOf(c) >= MinScore /\ \A j \in 1..Len(Found) : Found[j].id # c)
                 => /\ Len(Found) = TopK
                    /\ \A j \in 1..Len(Found) : Found[j].score >= ScoreOf(c)
        /\ Len(Found) =
              Min(TopK, Cardinality({c \in Candidates : ScoreOf(c) >= MinScore}))
        /\ Scenario =>
              /\ Len(Found) = 2
              /\ Found[1].id = 1 /\ Found[1].score = ScoreScale
              /\ Found[2].id = 3 /\ Found[2].score = ScoreOf(3)

C7_Witness == Scenario /\ Len(Found) = 2

(* C8: a search of a store with zero documents returns the empty sequence, *)
(* whatever the query, k, filter and min_score, and does not raise.        *)
C8_EmptyStore ==
    (SearchDone /\ Len(documents) = 0) => op.outcome = Return(<<>>)

C8_Witness ==
    /\ SearchDone
    /\ Len(documents) = 0
    /\ ~embeddings.present
    /\ Filter \in Tags

-----------------------------------------------------------------------------
(* Properties of save and load                                             *)

LoadDone == op.name \in {"load", "get_simple_vector_db"}

Intact(f) == f.state = "dict" /\ f.keys = {"documents", "embeddings"}

(* C9: what save() writes, load() reads back: right after a save (alone or *)
(* at the end of insert_documents) a load of the file by a new store       *)
(* object succeeds and yields the saving store's document list and         *)
(* embedding rows; and a load that succeeds, on the same or a new store    *)
(* object, leaves the store equal to the state handed to the last save.    *)
C9_RoundTrip ==
    /\ op.name \in {"save", "insert_documents"} =>
          /\ LoadOutcome(file) = Return(TRUE)
          /\ LoadedDocuments(file, <<>>) = documents
          /\ LoadedEmbeddings(file, NoEmbeddings) = embeddings
    /\ (LoadDone /\ op.outcome = Return(TRUE)) =>
          /\ saved.any
          /\ documents = saved.documents
          /\ embeddings = saved.embeddings

C9_Witness ==
    /\ op.name = "get_simple_vector_db"
    /\ op.outcome = Return(TRUE)
    /\ Len(documents) = 2
    /\ Len(embeddings.rows) = 2
    /\ documents[1].dbti_code # documents[2].dbti_code
    /\ embeddings.rows[1] # embeddings.rows[2]

(* C10 as claimed: a load of a missing or corrupt backing file does not    *)
(* raise, and a new store object that tried it holds zero documents.       *)
C10_GracefulLoad ==
    (LoadDone /\ ~Intact(file)) =>
        /\ op.outcome.kind = "return"
        /\ op.name = "get_simple_vector_db" => Len(documents) = 0

(* C11 as claimed: the store holds as many documents as embedding rows in  *)
(* every state that insert_documents, save and load lead to; a call of     *)
(* insert_documents with lists of different lengths leaves no mismatch.    *)
C11_PairingInvariant ==
    op.name \in {"insert_documents", "save", "load"} =>
        Len(documents) = Len(embeddings.rows)

-----------------------------------------------------------------------------
(* Properties of compose (generate_response_with_context)                  *)

ComposeDone == op.name = "generate_response_with_context"

(* What the store holds for the request: the ranked documents its search   *)
(* finds for the query's embedding, the request's type filter and top_k,   *)
(* at the configured threshold.                                            *)
Retrievable ==
    search(documents, embeddings, encode_text(op.args.query), op.args.top_k,
           op.args.pawna_type, ConfiguredMinScore, argsortTies).value

(* The service initialized: the embedding model and the store are loaded *)
ServiceReady == ragInitialized /\ modelLoaded

(* The generator is asked for and its call cannot succeed *)
GeneratorFails ==
    op.args.use_llm /\ (~apiKey \/ op.args.gateway # "ok")

(* C1 as claimed: when the store has at least one document for the request *)
(* and the generator call fails (no credential, network error, timeout,    *)
(* provider error or malformed completion), compose returns (does not      *)
(* raise) a response with llm_used = false whose text carries the top      *)
(* document's content.                                                     *)
C1_FallbackInvariant ==
    (ComposeDone /\ ServiceReady /\ Retrievable # <<>> /\ GeneratorFails) =>
        /\ op.outcome.kind = "return"
        /\ op.outcome.value.llm_used = FALSE
        /\ op.outcome.value.response # <<>>
        /\ \E n \in 1..Len(op.outcome.value.response) :
              op.outcome.value.response[n] = <<"tip", Retrievable[1].content>>

(* C2 as claimed: compose returns a response whose confidence is 0.0 when  *)
(* nothing was retrieved and the top document's score otherwise (scores    *)
(* that pass the threshold are positive, so it is 0.0 only when nothing    *)
(* was retrieved).                                                         *)
C2_ConfidenceConsistency ==
    (ComposeDone /\ ServiceReady) =>
        /\ op.outcome.kind = "return"
        /\ op.outcome.value.confidence =
              (IF Retrievable = <<>> THEN 0 ELSE Retrievable[1].score)
        /\ (op.outcome.value.confidence = 0) <=> (Retrievable = <<>>)

(* How many POSTs the request sent to the provider *)
GatewayRequests == op.requests

(* C12 as claimed: when the store has nothing for the request, compose     *)
(* returns the fixed nothing-found message with confidence 0.0, no sources *)
(* and llm_used = false, and sends nothing to the provider, whatever       *)
(* use_llm and the credential are.                                         *)
C12_EmptyRetrieval ==
    (ComposeDone /\ ServiceReady /\ Retrievable = <<>>) =>
        /\ op.outcome.kind = "return"
        /\ op.outcome.value.response = NothingFound
        /\ op.outcome.value.confidence = 0
        /\ op.outcome.value.sources = <<>>
        /\ op.outcome.value.llm_used = FALSE
        /\ GatewayRequests = 0

(* The generator is not asked for, or has no credential *)
SearchOnly == ~op.args.use_llm \/ ~apiKey

(* C13 as claimed: when the store has documents for the request and the    *)
(* generator is not asked for or has no credential, compose returns        *)
(* llm_used = false, a text that starts with the top document's content,   *)
(* followed by the list of the 2nd..n-th titles exactly when there is more *)
(* than one document, confidence equal to the top score and sources equal  *)
(* to all retrieved titles, and sends nothing to the provider.             *)
C13_DirectBranch ==
    (ComposeDone /\ ServiceReady /\ Retrievable # <<>> /\ SearchOnly) =>
        /\ op.outcome.kind = "return"
        /\ op.outcome.value.llm_used = FALSE
        /\ op.outcome.value.response[1] = <<"tip", Retrievable[1].content>>
        /\ Len(Retrievable) > 1 =>
              op.outcome.value.response[2] =
                  <<"additional references", Tail(Titles(Retrievable))>>
        /\ Len(Retrievable) = 1 =>
              \A n \in 1..Len(op.outcome.value.response) :
                  op.outcome.value.response[n][1] # "additional references"
        /\ op.outcome.value.confidence = Retrievable[1].score
        /\ op.outcome.value.sources = Titles(Retrievable)
        /\ GatewayRequests = 0

(* The generator is asked for, has a credential and the provider answers   *)
(* with a well-formed completion                                           *)
GeneratorSucceeds == op.args.use_llm /\ apiKey /\ op.args.gateway = "ok"

(* C14 as claimed: when the store has documents for the request and the    *)
(* generator succeeds, compose returns llm_used = true, confidence equal   *)
(* to the top score and the generated text followed by the numbered list   *)
(* of all retrieved titles in rank order; llm_used = true is returned in   *)
(* no other case.                                                          *)
C14_GeneratorSuccess ==
    /\ (ComposeDone /\ ServiceReady /\ Retrievable # <<>> /\ GeneratorSucceeds) =>
          /\ op.outcome.kind = "return"
          /\ op.outcome.value.llm_used = TRUE
          /\ op.outcome.value.confidence = Retrievable[1].score
          /\ op.outcome.value.response =
                <<Generated, <<"references", Titles(Retrievable)>>>>
    /\ (ComposeDone /\ op.outcome.kind = "return" /\ op.outcome.value.llm_used) =>
          (Retrievable # <<>> /\ GeneratorSucceeds)

(* C15 as claimed: compose answers every request with a response whose     *)
(* sources are the titles of the retrieved documents in ranking order and  *)
(* whose num_sources is their number, whichever branch produced it.        *)
C15_SourcesInvariant ==
    (ComposeDone /\ ServiceReady) =>
        /\ op.outcome.kind = "return"
        /\ op.outcome.value.sources = Titles(Retrievable)
        /\ op.outcome.value.num_sources = Len(Retrievable)

(* The response of compose when nothing is available for the request *)
NoInformationResponse ==
    [response |-> NothingFound, context |-> NoInformation, sources |-> <<>>,
     num_sources |-> 0, confidence |-> 0, llm_used |-> FALSE]

(* C16 as claimed: when the embedding model cannot be loaded, compose does *)
(* not raise: it returns the no-information response (no sources,          *)
(* confidence 0.0, llm_used = false).                                      *)
C16_EmbeddingFailureAbsorbed ==
    (ComposeDone /\ ~modelLoaded) => op.outcome = Return(NoInformationResponse)

(* The generator is asked for and the credential is missing or rejected *)
Unauthorized ==
    op.args.use_llm /\ (~apiKey \/ op.args.gateway = "http_error")

(* C20 as claimed: with no API key, or a key the provider rejects, compose *)
(* does not raise and returns the search-only response with llm_used =     *)
(* false, as for an unreachable provider; and chat_completion without an   *)
(* API key fails with an error before any request is sent.                 *)
C20_CredentialRecoverable ==
    /\ (ComposeDone /\ ServiceReady /\ Unauthorized) =>
          /\ op.outcome.kind = "return"
          /\ op.outcome.value.llm_used = FALSE
          /\ op.outcome.value.response =
                FallbackText(Retrievable, op.args.pawna_type)
    /\ \A gateway \in GatewayBehaviours :
          /\ chat_completion(FALSE, gateway).outcome.kind = "raise"
          /\ chat_completion(FALSE, gateway).requests = 0

ChatDone == op.name = "chat"

(* C17: the chat handler answers every request that passes validation with *)
(* a ChatResponse, whatever fails inside retrieval or generation; only a   *)
(* request the request model rejects ends in an error.                     *)
C17_AlwaysResponds ==
    ChatDone =>
        IF op.args.message = ""
        THEN op.outcome = Raise("RequestValidationError")
        ELSE /\ op.outcome.kind = "return"
             /\ DOMAIN op.outcome.value = {"message", "sources", "confidence"}
             /\ op.outcome.value.confidence \in 0..ScoreScale

C17_Witness ==
    /\ ChatDone
    /\ op.args.message # ""
    /\ ~ServiceReady
    /\ op.outcome = Return(ErrorChatResponse)

-----------------------------------------------------------------------------
(* Properties of format_messages                                           *)

FormatDone == op.name = "format_messages"
Built == op.outcome.value
History == op.args.conversation_history.turns

(* C18: the sequence built for a history of n turns holds exactly the last *)
(* min(n, 5) turns, oldest of them first, after the system entry and       *)
(* before the entry of the current user message; no earlier turn appears.  *)
C18_HistoryTruncation ==
    FormatDone =>
        LET n == Len(History)
            m == Min(n, 5)
        IN  /\ Len(Built) = m + 2
            /\ Built[1].role = "system"
            /\ \A j \in 1..m : Built[1 + j] = History[n - m + j]
            /\ Built[m + 2] = [role |-> "user",
                               content |-> <<op.args.user_message>>]
            /\ \A i \in 1..(n - m) : \A j \in 1..Len(Built) : Built[j] # History[i]

C18_Witness ==
    /\ FormatDone
    /\ Len(History) = 7
    /\ Len(Built) = 7
    /\ Built[2] = Turn(3, "assistant")
    /\ Built[6] = Turn(7, "user")

SystemEntries(messages) == {j \in 1..Len(messages) : messages[j].role = "system"}

(* C19 as claimed: every built sequence has its roles in {system, user,    *)
(* assistant}, exactly one system entry, which is first, and ends with the *)
(* user entry carrying the current query augmented with the context block. *)
C19_OneSystemContextInUser ==
    FormatDone =>
        /\ \A j \in 1..Len(Built) : Built[j].role \in Roles
        /\ SystemEntries(Built) = {1}
        /\ Built[Len(Built)].role = "user"
        /\ Truthy(op.args.context) =>
              \E n \in 1..Len(Built[Len(Built)].content) :
                  Built[Len(Built)].content[n] = op.args.context

(* C19 as amended: every built sequence has its roles in {system, user,    *)
(* assistant}; its first entry is a system entry that carries the system   *)
(* prompt and, when there is a context, the context block; its system      *)
(* entries are that one and the system turns among the last 5 of the       *)
(* history; it ends with the user entry carrying the current query alone.  *)
C19_MessageShape ==
    FormatDone =>
        LET n == Len(History)
            m == Min(n, 5)
        IN  /\ \A j \in 1..Len(Built) : Built[j].role \in Roles
            /\ Built[1].role = "system"
            /\ Built[1].content[1] = op.args.system_prompt
            /\ Truthy(op.args.context) <=>
                  \E k \in 1..Len(Built[1].content) :
                      Built[1].content[k] = op.args.context
            /\ SystemEntries(Built) =
                  {1} \cup {1 + j : j \in {i \in 1..m : History[n - m + i].role = "system"}}
            /\ Built[Len(Built)] = [role |-> "user",
                                    content |-> <<op.args.user_message>>]

C19_Witness ==
    /\ FormatDone
    /\ op.args.context = "context"
    /\ Len(History) = 6
    /\ History[1].role = "system"
    /\ Cardinality(SystemEntries(Built)) = 2

-----------------------------------------------------------------------------
(* Properties of format_context                                            *)

ContextDone == op.name = "format_context"
Formatted == op.outcome.value
Given == op.args.retrieved_docs

(* C21: format_context of the empty list returns the fixed sentinel, which *)
(* is not the empty string; and whatever the input, a call that returns    *)
(* does not return the empty string.                                       *)
C21_SentinelNotEmpty ==
    ContextDone =>
        /\ Given = <<>> => (op.outcome = Return(NoInformation) /\ Formatted # <<>>)
        /\ op.outcome.kind = "return" => Formatted # <<>>

C21_Witness ==
    /\ ContextDone
    /\ Given = <<>>
    /\ op.outcome.kind = "return"

(* The documents carry the field the formatter prints as the type code *)
Printable == \A i \in 1..Len(Given) : Given[i].pawna_code # None

-----------------------------------------------------------------------------
(* Properties of EmbeddingService                                          *)

EmbedderCalls == {"load_model", "encode_text", "encode_batch"}

(* C23: over any sequence of load_model, encode_text and encode_batch      *)
(* calls the service constructs at most one model; once it holds a model   *)
(* every call keeps it and constructs nothing; a call whose load fails     *)
(* leaves the service without a model and the count unchanged; and a call  *)
(* on a service without a model loads one when the model can be built.     *)
C23_LoadOnce ==
    [][op'.name \in EmbedderCalls =>
          /\ modelsBuilt' <= 1
          /\ modelLoaded => (modelLoaded' /\ modelsBuilt' = modelsBuilt)
          /\ op'.outcome.kind = "raise" =>
                (~modelLoaded' /\ modelsBuilt' = modelsBuilt)
          /\ (~modelLoaded /\ op'.args.weights) =>
                (modelLoaded' /\ modelsBuilt' = modelsBuilt + 1
                    /\ op'.outcome.kind = "return")]_vars

C23_Witness ==
    /\ op.name = "encode_batch"
    /\ op.args.loaded
    /\ op.args.weights
    /\ Len(op.args.texts) = 2
    /\ op.outcome.kind = "return"
    /\ modelsBuilt = 1

-----------------------------------------------------------------------------
(* Properties of concurrent ingestion                                      *)

(* What a search with the arguments args returns on a store holding docs   *)
(* and emb                                                                 *)
SearchOn(docs, emb, args) ==
    search(docs, emb, args.query_embedding, args.top_k, args.dbti_filter,
           args.min_score, argsortTies)

(* C24 as claimed: a search that runs while insert_documents is in         *)
(* progress returns what it would return on the store as it was before the *)
(* call or on the store as the call leaves it, never a result of the new   *)
(* documents paired with the old embeddings or the reverse.                *)
C24_AtomicIngestion ==
    [][(op'.name = "search" /\ op' # op /\ inflight.pc # "idle") =>
          \/ op'.outcome = SearchOn(inflight.oldDocuments, inflight.oldEmbeddings,
                                    op'.args)
          \/ op'.outcome = SearchOn(inflight.documents, inflight.embeddings,
                                    op'.args)]_vars

-----------------------------------------------------------------------------
(* Properties of the phases of compose                                     *)

ComposeFinished == op.name = "compose"
Phases == op.trace

(* C25 as claimed: every compose call passes SEARCHING, then EMPTY or      *)
(* FOUND, then GENERATING or DIRECT, and ends by returning a response; it  *)
(* sends at most one request to the provider, and only after the search    *)
(* found documents with the generator asked for and available; and the     *)
(* failure phase is entered from GENERATING only.                          *)
C25_StateMachine ==
    ComposeFinished =>
        /\ op.outcome.kind = "return"
        /\ Phases[Len(Phases)] = "DONE"
        /\ Phases[1] = "SEARCHING"
        /\ Phases[2] \in {"EMPTY", "FOUND"}
        /\ Phases[3] \in {"GENERATING", "DIRECT"}
        /\ op.requests <= 1
        /\ op.requests = 1 =>
              (Phases[2] = "FOUND" /\ Phases[3] = "GENERATING"
                  /\ op.args.use_llm /\ apiKey)
        /\ \A i \in 1..Len(Phases) :
              Phases[i] = "FAILED" => (i > 1 /\ Phases[i - 1] = "GENERATING")

-----------------------------------------------------------------------------
(* Properties of the type filter from the chat endpoint to the store       *)

(* The stored documents that an ingestion run tagged with the type code *)
OfType(code) ==
    {i \in 1..Len(documents) :
        documents[i].dbti_code = code \/ documents[i].pawna_code = code}

Reachable(code, message) ==
    {i \in OfType(code) : i <= Len(embeddings.rows)
        /\ Similarity(embeddings.rows[i], encode_text(message)) >= ConfiguredMinScore}

(* C26 as claimed: a chat request with the type code X, on a service that  *)
(* is initialized and a store holding a document of type X that scores at  *)
(* least the configured threshold against the message, is answered with    *)
(* sources that are not empty and are titles of documents of type X only.  *)
C26_FilterEndToEnd ==
    (ChatDone /\ op.args.message # "" /\ op.args.dbti_type \in Tags
        /\ ServiceReady
        /\ Reachable(op.args.dbti_type, op.args.message) # {}) =>
        /\ op.outcome.kind = "return"
        /\ op.outcome.value.sources # <<>>
        /\ \A j \in 1..Len(op.outcome.value.sources) :
              \E i \in OfType(op.args.dbti_type) :
                  documents[i].title = op.outcome.value.sources[j]

-----------------------------------------------------------------------------
(* Properties of insert_documents as a whole                               *)

InsertDone == op.name = "insert_documents"

(* C27: when insert_documents(documents, embeddings) has returned, the     *)
(* store holds exactly the documents and the embeddings given, whatever it *)
(* held before, the file holds the same pair, and a load of that file by a *)
(* new store object yields exactly the given documents and embeddings.     *)
C27_InsertPersists ==
    InsertDone =>
        /\ op.outcome = Return(None)
        /\ documents = op.args.documents
        /\ embeddings = op.args.embeddings
        /\ file = Pickled(documents, embeddings)
        /\ LoadOutcome(file) = Return(TRUE)
        /\ LoadedDocuments(file, <<>>) = op.args.documents
        /\ LoadedEmbeddings(file, NoEmbeddings) = op.args.embeddings

C27_Witness ==
    /\ InsertDone
    /\ op.held > 0
    /\ Len(op.args.documents) = 1
    /\ Len(documents) = 1
    /\ LoadedDocuments(file, <<>>) = op.args.documents

-----------------------------------------------------------------------------
(* Properties of search as a reader of the store                           *)

Scored(doc) == "score" \in DOMAIN doc

(* C28: after any number of searches the store is the one the process     *)
(* loaded: the list of stored documents, the fields of every stored        *)
(* document and the embedding matrix are as they were saved, no stored     *)
(* document carries a score, the scores are on the copies returned.  And   *)
(* the last search returned what the same call returns on the store as it  *)
(* was loaded, whatever searches came before it.                           *)
C28_SearchReadOnly ==
    SearchDone =>
        /\ documents = saved.documents
        /\ embeddings = saved.embeddings
        /\ \A i \in 1..Len(documents) : ~Scored(documents[i])
        /\ op.outcome.kind = "return" =>
              \A j \in 1..Len(Found) : Scored(Found[j])
        /\ op.outcome = SearchOn(saved.documents, saved.embeddings, op.args)

C28_Witness ==
    /\ SearchDone
    /\ Len(documents) >= 2
    /\ op.outcome.kind = "return"
    /\ Len(Found) >= 2
    /\ \A j \in 1..Len(Found) : Scored(Found[j])
    /\ \A i \in 1..Len(documents) : ~Scored(documents[i])

-----------------------------------------------------------------------------
(* Properties of ChatbotService.generate_response                          *)

GenerateDone == op.name = "generate_response"

(* What the store returns for the request's query and type code *)
Wanted ==
    search(documents, embeddings, encode_text(op.args.user_query), ChatbotTopK,
           op.args.dbti_type, ConfiguredMinScore, argsortTies)

LLMStepFails == op.args.use_llm /\ apiKey /\ op.args.gateway # "ok"

(* C29 as claimed: generate_response returns a dict whatever fails in the  *)
(* initialization, the retrieval or the generation; and when the store has *)
(* a document for the request and the LLM step fails, the dict is the      *)
(* search-only answer with the titles found as sources and the top score   *)
(* as confidence, not the apology with no sources and confidence 0.        *)
C29_NeverRaisesAndDegrades ==
    GenerateDone =>
        /\ op.outcome.kind = "return"
        /\ (/\ LLMStepFails
            /\ Wanted.kind = "return"
            /\ Wanted.value # <<>>) =>
              /\ op.outcome.value.sources = Titles(Wanted.value)
              /\ op.outcome.value.confidence = Confidence(Wanted.value)
              /\ op.outcome.value.method # "fallback"

-----------------------------------------------------------------------------
(* Properties of the field that decides a document's type                  *)

IdsOf(docs) == {docs[i].id : i \in 1..Len(docs)}

Selected == search_by_pawna(documents, Filter, SearchByPawnaTopK)

(* C30 as claimed: a search with the type code X as filter, a top_k that   *)
(* covers the store and a min_score below every score returns the same     *)
(* set of documents that search_by_pawna(X) selects from the same store.   *)
C30_FilterKeyConsistency ==
    (/\ SearchDone
     /\ Filter \in Tags
     /\ TopK >= Len(documents)
     /\ \A i \in 1..Len(documents) : ScoreOf(i) >= MinScore) =>
        /\ op.outcome.kind = "return"
        /\ Selected.kind = "return"
        /\ IdsOf(Found) = IdsOf(Selected.value)

====
